---- MODULE Spec2Model ----
(***************************************************************************)
(* A model of editingScript.py: the frame-data store, the name matching,   *)
(* the clip-window computation, the output indexing and the interactive    *)
(* flows (main menu, manual trim, move extractor).                         *)
(*                                                                         *)
(* A Python str is a sequence of one-character strings.  A Python dict is  *)
(* a sequence of records [k, v] in insertion order, with no key twice.     *)
(* A time in seconds (a Python float) is an integer number of ticks,       *)
(* TicksPerSecond to the second, which represents every time of the model  *)
(* exactly (hundredths of a second, and frames at 30, 60 and 120 fps).     *)
(***************************************************************************)
EXTENDS Integers, Sequences, FiniteSets, TLC

VARIABLES
    pc,          \* the prompt the process blocks on, or "exited" / "crashed"
    store,       \* frame_data.json: the persisted frame table
    frame_data,  \* move_extractor_flow's in-memory table
    output,      \* OUTPUT_DIR: its move directories and its files
    duration,    \* clip.duration of the open video, in ticks
    character,   \* move_extractor_flow's local `character`
    move,        \* move_extractor_flow's local `move`
    pending,     \* ensure_move_frames' locals and the timestamp, while it prompts
    written,     \* history: the clips save_move_clip wrote, in order
    returned,    \* history: what ensure_move_frames returned, by comparison keys
    typed,       \* history: the line the last prompt read, as the operator typed it
    ev,          \* history: what the last step did
    scenario,    \* which inputs the operator draws from in this behaviour
    arg,         \* the input of a pure function under check
    res          \* its result

vars == <<pc, store, frame_data, output, duration, character, move, pending,
          written, returned, typed, ev, scenario, arg, res>>

---------------------------------------------------------------------------
(* Characters and strings *)

UpperLetters ==
    <<"A","B","C","D","E","F","G","H","I","J","K","L","M",
      "N","O","P","Q","R","S","T","U","V","W","X","Y","Z">>

LowerLetters ==
    <<"a","b","c","d","e","f","g","h","i","j","k","l","m",
      "n","o","p","q","r","s","t","u","v","w","x","y","z">>

DecimalDigits == <<"0","1","2","3","4","5","6","7","8","9">>

\* U+00B2 SUPERSCRIPT TWO: str.isdigit() is True for it, while int() and
\* float() reject it and the regular expression \d does not match it.
SuperscriptTwo == "SUP2"

Occurs(seq, ch) == \E i \in DOMAIN seq : seq[i] = ch

IndexOf(seq, ch) == CHOOSE i \in DOMAIN seq : seq[i] = ch

\* str.isdecimal() of one character
IsDecimal(ch) == Occurs(DecimalDigits, ch)

\* str.isdigit() of one character
IsDigitChar(ch) == IsDecimal(ch) \/ ch = SuperscriptTwo

\* str.isspace() of one character
IsSpace(ch) == ch \in {" ", "\t"}

\* str.isalnum() of one character
IsAlnumChar(ch) ==
    Occurs(UpperLetters, ch) \/ Occurs(LowerLetters, ch) \/ IsDigitChar(ch)

\* str.lower() of one character
LowerChar(ch) ==
    IF Occurs(UpperLetters, ch) THEN LowerLetters[IndexOf(UpperLetters, ch)]
    ELSE ch

\* str.lower() that leaves every character as it is
StrLowerUnchanged(s) == s

\* str.lower()
StrLower(s) == [i \in DOMAIN s |-> LowerChar(s[i])]

\* str.strip()
RECURSIVE LStrip(_)
LStrip(s) == IF s /= <<>> /\ IsSpace(Head(s)) THEN LStrip(Tail(s)) ELSE s

RECURSIVE RStrip(_)
RStrip(s) ==
    IF s /= <<>> /\ IsSpace(s[Len(s)]) THEN RStrip(SubSeq(s, 1, Len(s) - 1))
    ELSE s

Strip(s) == RStrip(LStrip(s))

\* str.isdigit(): not empty, and every character a digit
IsDigit(s) == s /= <<>> /\ \A i \in DOMAIN s : IsDigitChar(s[i])

\* the code point of a character, for the order of str
CodePoint(ch) ==
    IF ch = "\t" THEN 9
    ELSE IF ch = " " THEN 32
    ELSE IF ch = "-" THEN 45
    ELSE IF ch = "." THEN 46
    ELSE IF IsDecimal(ch) THEN 47 + IndexOf(DecimalDigits, ch)
    ELSE IF ch = ":" THEN 58
    ELSE IF Occurs(UpperLetters, ch) THEN 64 + IndexOf(UpperLetters, ch)
    ELSE IF ch = "_" THEN 95
    ELSE IF Occurs(LowerLetters, ch) THEN 96 + IndexOf(LowerLetters, ch)
    ELSE 178

\* a < b for two str
RECURSIVE StrLess(_, _)
StrLess(a, b) ==
    IF b = <<>> THEN FALSE
    ELSE IF a = <<>> THEN TRUE
    ELSE IF Head(a) /= Head(b) THEN CodePoint(Head(a)) < CodePoint(Head(b))
    ELSE StrLess(Tail(a), Tail(b))

---------------------------------------------------------------------------
(* dict *)

DictKeys(d) == {d[i].k : i \in DOMAIN d}

DictHas(d, key) == \E i \in DOMAIN d : d[i].k = key

\* d[key]
DictGet(d, key) == d[CHOOSE i \in DOMAIN d : d[i].k = key].v

\* d.get(key, default)
DictGetOr(d, key, default) == IF DictHas(d, key) THEN DictGet(d, key) ELSE default

\* d[key] = value
DictSet(d, key, value) ==
    IF DictHas(d, key)
    THEN [i \in DOMAIN d |-> IF d[i].k = key THEN [k |-> key, v |-> value] ELSE d[i]]
    ELSE Append(d, [k |-> key, v |-> value])

\* d.setdefault(key, {})
DictSetDefault(d, key) == IF DictHas(d, key) THEN d ELSE Append(d, [k |-> key, v |-> <<>>])

\* the items of d in the order of their keys
RECURSIVE SortItems(_)
SortItems(d) ==
    IF d = <<>> THEN <<>>
    ELSE LET least == CHOOSE i \in DOMAIN d :
                          \A j \in DOMAIN d : j /= i => StrLess(d[i].k, d[j].k)
             rest  == [j \in 1..(Len(d) - 1) |-> IF j < least THEN d[j] ELSE d[j + 1]]
         IN  <<d[least]>> \o SortItems(rest)

---------------------------------------------------------------------------
(* Numbers and their text *)

\* one second, in ticks
TicksPerSecond == 20 * 60

\* the number a string of decimal digits writes ("" is 0)
RECURSIVE DecValue(_)
DecValue(s) ==
    IF s = <<>> THEN 0
    ELSE 10 * DecValue(SubSeq(s, 1, Len(s) - 1)) + (IndexOf(DecimalDigits, s[Len(s)]) - 1)

\* whether int(s) returns, for a string s that passed isdigit(); it raises
\* ValueError on a digit that is not a decimal
IntAccepts(s) == s /= <<>> /\ \A i \in DOMAIN s : IsDecimal(s[i])

\* str(n) for n >= 0
RECURSIVE DecString(_)
DecString(n) ==
    IF n < 10 THEN <<DecimalDigits[n + 1]>>
    ELSE DecString(n \div 10) \o <<DecimalDigits[(n % 10) + 1]>>

\* f"{n:03d}"
RECURSIVE ZeroPad(_, _)
ZeroPad(s, width) == IF Len(s) >= width THEN s ELSE ZeroPad(<<"0">> \o s, width)

Format03d(n) == ZeroPad(DecString(n), 3)

RECURSIVE Pow10(_)
Pow10(n) == IF n = 0 THEN 1 ELSE 10 * Pow10(n - 1)

\* s.replace(".", "", 1)
RemoveFirstDot(s) ==
    IF Occurs(s, ".")
    THEN LET i == CHOOSE i \in DOMAIN s : s[i] = "." /\ \A j \in 1..(i - 1) : s[j] /= "."
         IN  SubSeq(s, 1, i - 1) \o SubSeq(s, i + 1, Len(s))
    ELSE s

\* whether float(s) returns, for a string s with s.replace(".", "", 1).isdigit()
FloatAccepts(s) == \A i \in DOMAIN s : s[i] = "." \/ IsDecimal(s[i])

\* float(s) in ticks, for a string of decimal digits with at most one "."
FloatTicks(s) ==
    IF Occurs(s, ".")
    THEN LET i    == IndexOf(s, ".")
             frac == SubSeq(s, i + 1, Len(s))
         IN  DecValue(SubSeq(s, 1, i - 1)) * TicksPerSecond
               + (DecValue(frac) * TicksPerSecond) \div Pow10(Len(frac))
    ELSE DecValue(s) * TicksPerSecond

\* s.split(":")
RECURSIVE SplitColon(_)
SplitColon(s) ==
    IF Occurs(s, ":")
    THEN LET i == CHOOSE i \in DOMAIN s : s[i] = ":" /\ \A j \in 1..(i - 1) : s[j] /= ":"
         IN  <<SubSeq(s, 1, i - 1)>> \o SplitColon(SubSeq(s, i + 1, Len(s)))
    ELSE <<s>>

---------------------------------------------------------------------------
(* Time parsing: a result is [raised, val], val in ticks *)

Raise == [raised |-> TRUE, val |-> 0]

Return(v) == [raised |-> FALSE, val |-> v]

\* parse_time_to_seconds adding the minutes as they are, not times 60
parse_time_to_seconds_minutes_unscaled(time_str) ==
    IF time_str = <<>> THEN Raise
    ELSE LET parts == SplitColon(time_str)
         IN  IF Len(parts) = 1
             THEN IF ~IsDigit(RemoveFirstDot(parts[1])) THEN Raise
                  ELSE IF ~FloatAccepts(parts[1]) THEN Raise
                  ELSE Return(FloatTicks(parts[1]))
             ELSE IF Len(parts) = 2
             THEN LET minutes == parts[1]
                      seconds == parts[2]
                  IN  IF ~IsDigit(minutes) \/ ~IsDigit(RemoveFirstDot(seconds)) THEN Raise
                      ELSE IF ~IntAccepts(minutes) \/ ~FloatAccepts(seconds) THEN Raise
                      ELSE Return(DecValue(minutes) * TicksPerSecond + FloatTicks(seconds))
             ELSE Raise

parse_time_to_seconds(time_str) ==
    IF time_str = <<>> THEN Raise
    ELSE LET parts == SplitColon(time_str)
         IN  IF Len(parts) = 1
             THEN IF ~IsDigit(RemoveFirstDot(parts[1])) THEN Raise
                  ELSE IF ~FloatAccepts(parts[1]) THEN Raise
                  ELSE Return(FloatTicks(parts[1]))
             ELSE IF Len(parts) = 2
             THEN LET minutes == parts[1]
                      seconds == parts[2]
                  IN  IF ~IsDigit(minutes) \/ ~IsDigit(RemoveFirstDot(seconds)) THEN Raise
                      ELSE IF ~IntAccepts(minutes) \/ ~FloatAccepts(seconds) THEN Raise
                      ELSE Return(DecValue(minutes) * 60 * TicksPerSecond + FloatTicks(seconds))
             ELSE Raise

\* int(seconds): the whole seconds of a non-negative time
parse_time(time_str) ==
    LET seconds == parse_time_to_seconds(time_str)
    IN  IF seconds.raised THEN Raise
        ELSE Return((seconds.val \div TicksPerSecond) * TicksPerSecond)

---------------------------------------------------------------------------
(* Names *)

NotSpace(ch) == ~IsSpace(ch)

sanitize_label(label) ==
    LET cleaned == SelectSeq(label, IsAlnumChar)
    IN  IF cleaned /= <<>> THEN cleaned ELSE <<"U","n","k","n","o","w","n">>

normalize_key(value) == StrLower(SelectSeq(value, NotSpace))

\* the first key of d, in iteration order, whose normalized form is target
FirstMatch(d, target, default) ==
    IF \E i \in DOMAIN d : normalize_key(d[i].k) = target
    THEN d[CHOOSE i \in DOMAIN d :
               /\ normalize_key(d[i].k) = target
               /\ \A j \in 1..(i - 1) : normalize_key(d[j].k) /= target].k
    ELSE default

\* match_character_name comparing the keys as they are
match_character_name_exact(name, data) ==
    name

match_character_name(name, data) == FirstMatch(data, normalize_key(name), name)

\* match_move_name returning the comparison key in place of the stored key
match_move_name_normalized(char, mv, data) ==
    LET target == normalize_key(mv)
    IN  IF \E i \in DOMAIN DictGetOr(data, char, <<>>) :
               normalize_key(DictGetOr(data, char, <<>>)[i].k) = target
        THEN target
        ELSE mv

\* match_move_name comparing the keys as they are
match_move_name_exact(char, mv, data) ==
    mv

match_move_name(char, mv, data) ==
    FirstMatch(DictGetOr(data, char, <<>>), normalize_key(mv), mv)

---------------------------------------------------------------------------
(* The persisted frame table.  The file is [exists, json, val]: json is    *)
(* what its text parses to ("invalid" when it does not parse), val the     *)
(* parsed object when json = "object".                                     *)

NoFile == [exists |-> FALSE, json |-> "invalid", val |-> <<>>]

\* json.dump(data, handle, indent=2, sort_keys=True): keys sorted at both levels
JsonDumpSorted(data) ==
    LET outer == SortItems(data)
    IN  [i \in DOMAIN outer |-> [k |-> outer[i].k, v |-> SortItems(outer[i].v)]]

save_frame_data(data) == [exists |-> TRUE, json |-> "object", val |-> JsonDumpSorted(data)]

\* json.load(handle): [raised, type, val]; it raises a ValueError
\* (JSONDecodeError) on a text that is no JSON
JsonLoad(file) ==
    IF file.json = "invalid" THEN [raised |-> TRUE, type |-> "none", val |-> <<>>]
    ELSE [raised |-> FALSE, type |-> file.json, val |-> file.val]

\* load_frame_data without the reset of a file it cannot use
load_frame_data_no_reset(file) ==
    IF ~file.exists
    THEN [raised |-> FALSE, data |-> <<>>,
          store |-> [exists |-> TRUE, json |-> "object", val |-> <<>>]]
    ELSE LET loaded == JsonLoad(file)
         IN  IF loaded.raised \/ loaded.type /= "object"
             THEN [raised |-> FALSE, data |-> <<>>, store |-> file]
             ELSE [raised |-> FALSE, data |-> loaded.val, store |-> file]

\* [raised, data, store]: whether load_frame_data raises, what it returns
\* and what it leaves in the file
load_frame_data(file) ==
    IF ~file.exists
    THEN [raised |-> FALSE, data |-> <<>>,
          store |-> [exists |-> TRUE, json |-> "object", val |-> <<>>]]
    ELSE LET loaded == JsonLoad(file)
         IN  IF loaded.raised \/ loaded.type /= "object"
             THEN \* except ValueError: reset the file
                  [raised |-> FALSE, data |-> <<>>, store |-> save_frame_data(<<>>)]
             ELSE [raised |-> FALSE, data |-> loaded.val, store |-> file]

---------------------------------------------------------------------------
(* The clip window: [raised, start, end], in ticks *)

FRAME_PAD_FRAMES == 13

\* 0.10 s
DEFAULT_EXTRA_PRE == TicksPerSecond \div 10

DEFAULT_EXTRA_POST == TicksPerSecond \div 10

DEFAULT_FPS == 60

Max(a, b) == IF a >= b THEN a ELSE b

Min(a, b) == IF a <= b THEN a ELSE b

\* get_clip_range with `start_time > end_time` for its test of an empty window
ClipRangeStrictTest(frames, fps, extra_pre, extra_post, center_ts, video_duration) ==
    LET half       == (frames * TicksPerSecond) \div (2 * fps)
        pad_sec    == (FRAME_PAD_FRAMES * TicksPerSecond) \div fps
        total_pre  == half + pad_sec + extra_pre
        total_post == half + pad_sec + extra_post
        start_time == Max(0, center_ts - total_pre)
        end_time   == Min(video_duration, center_ts + total_post)
    IN  IF start_time > end_time
        THEN [raised |-> TRUE, start |-> 0, end |-> 0]
        ELSE [raised |-> FALSE, start |-> start_time, end |-> end_time]

\* get_clip_range without its clamps at 0 and at the end of the video
ClipRangeUnclamped(frames, fps, extra_pre, extra_post, center_ts, video_duration) ==
    LET half       == (frames * TicksPerSecond) \div (2 * fps)
        pad_sec    == (FRAME_PAD_FRAMES * TicksPerSecond) \div fps
        start_time == center_ts - (half + pad_sec + extra_pre)
        end_time   == center_ts + (half + pad_sec + extra_post)
    IN  IF start_time >= end_time
        THEN [raised |-> TRUE, start |-> 0, end |-> 0]
        ELSE [raised |-> FALSE, start |-> start_time, end |-> end_time]

\* get_clip_range once ensure_move_frames has returned `frames`
ClipRange(frames, fps, extra_pre, extra_post, center_ts, video_duration) ==
    LET half       == (frames * TicksPerSecond) \div (2 * fps)
        pad_sec    == (FRAME_PAD_FRAMES * TicksPerSecond) \div fps
        total_pre  == half + pad_sec + extra_pre
        total_post == half + pad_sec + extra_post
        start_time == Max(0, center_ts - total_pre)
        end_time   == Min(video_duration, center_ts + total_post)
    IN  IF start_time >= end_time
        THEN [raised |-> TRUE, start |-> 0, end |-> 0]
        ELSE [raised |-> FALSE, start |-> start_time, end |-> end_time]

---------------------------------------------------------------------------
(* Output files.  OUTPUT_DIR is [dirs, files]: the move directories that   *)
(* exist (pairs <<character dir, move dir>>) and the files, each           *)
(* [dir, name] with dir = <<>> for OUTPUT_DIR itself.                      *)

DotMp4 == <<".", "m", "p", "4">>

\* pattern.match(filename) for rf"{re.escape(prefix)}(\d+)\.mp4$" with
\* re.IGNORECASE: [matched, digits]
PatternMatch(prefix, filename) ==
    LET n    == Len(prefix)
        rest == SubSeq(filename, n + 1, Len(filename))
        run  == IF \E i \in DOMAIN rest : ~IsDecimal(rest[i])
                THEN (CHOOSE i \in DOMAIN rest :
                          ~IsDecimal(rest[i]) /\ \A j \in 1..(i - 1) : IsDecimal(rest[j])) - 1
                ELSE Len(rest)
    IN  IF /\ Len(filename) >= n
           /\ StrLower(SubSeq(filename, 1, n)) = StrLower(prefix)
           /\ run >= 1
           /\ StrLower(SubSeq(rest, run + 1, Len(rest))) = DotMp4
        THEN [matched |-> TRUE, digits |-> SubSeq(rest, 1, run)]
        ELSE [matched |-> FALSE, digits |-> <<>>]

\* os.listdir(move_dir)
ListDir(out, dir) == {f.name : f \in {g \in out.files : g.dir = dir}}

\* the loop of next_output_index over the listing
RECURSIVE ScanMax(_, _, _)
ScanMax(names, prefix, max_idx) ==
    IF names = {} THEN max_idx
    ELSE LET filename == CHOOSE f \in names : TRUE
             m        == PatternMatch(prefix, filename)
         IN  ScanMax(names \ {filename}, prefix,
                     IF m.matched THEN Max(max_idx, DecValue(m.digits)) ELSE max_idx)

FilePrefix(char, mv) == sanitize_label(char) \o <<"_">> \o sanitize_label(mv) \o <<"_">>

MoveDir(char, mv) == <<sanitize_label(char), sanitize_label(mv)>>

\* next_output_index counting the clips instead of taking their maximum
next_output_index_counting(char, mv, out) ==
    IF MoveDir(char, mv) \notin out.dirs THEN 1
    ELSE Cardinality({f \in ListDir(out, MoveDir(char, mv)) :
                         PatternMatch(FilePrefix(char, mv), f).matched}) + 1

\* next_output_index returning the largest index itself
next_output_index_no_increment(char, mv, out) ==
    IF MoveDir(char, mv) \notin out.dirs THEN 1
    ELSE Max(1, ScanMax(ListDir(out, MoveDir(char, mv)), FilePrefix(char, mv), 0))

next_output_index(char, mv, out) ==
    IF MoveDir(char, mv) \notin out.dirs THEN 1
    ELSE ScanMax(ListDir(out, MoveDir(char, mv)), FilePrefix(char, mv), 0) + 1

\* os.path.splitext(name): [root, ext]
SplitExt(name) ==
    IF \E i \in DOMAIN name : name[i] = "." /\ \E j \in 1..(i - 1) : name[j] /= "."
    THEN LET i == CHOOSE i \in DOMAIN name :
                      name[i] = "." /\ \A j \in (i + 1)..Len(name) : name[j] /= "."
         IN  [root |-> SubSeq(name, 1, i - 1), ext |-> SubSeq(name, i, Len(name))]
    ELSE [root |-> name, ext |-> <<>>]

---------------------------------------------------------------------------
(* Bounds and the inputs drawn at each prompt.  A behaviour draws its      *)
(* inputs from one scenario: "manual" (the manual trim), "names" (the      *)
(* move extractor with differently cased and spaced names and every kind   *)
(* of frame-count entry) or "files" (the move extractor with moves whose   *)
(* sanitized labels coincide, old files in OUTPUT_DIR and a video library  *)
(* that can fail).                                                         *)

\* save_move_clip writes at most this many clips in one behaviour
MaxClips == 2

\* the video files under VIDEO_DIR
Videos == {<<"v", ".", "m", "p", "4">>}

\* clip.duration of a video, in ticks
Durations == {2 * TicksPerSecond}

MenuLines ==
    IF scenario = "manual" THEN {<<"1">>, <<"3">>, <<"9">>} ELSE {<<" ", "2">>, <<"3">>}

VideoLines == {<<"v", ".", "m", "p", "4">>, <<"n", "o">>}

\* whether VideoFileClip(...) and write_videofile(...) return (TRUE) or raise
LibraryOutcomes == IF scenario = "names" THEN {TRUE} ELSE BOOLEAN

CharacterLines ==
    IF scenario = "names"
    THEN {<<>>, <<"R", "y">>, <<" ", "r", " ", "Y", " ">>, <<" ", "k", " ">>}
    ELSE {<<>>, <<"R", "y">>}

Done == <<"d", "o", "n", "e">>

ChangeChar == <<"c", "h", "a", "n", "g", "e", "c", "h", "a", "r">>

MoveLines ==
    IF scenario = "names"
    THEN {<<>>, <<"L", "k">>, <<"l", " ", "K">>, <<"D", "o", "n", "e">>,
          <<"c", "h", "a", "n", "g", "e", "C", "H", "A", "R">>}
    ELSE {<<>>, <<"L", "k">>, <<"L", "-", "k">>, Done, ChangeChar}

TimeLines ==
    IF scenario = "manual"
    THEN {<<>>, <<"1", ".", "5">>, <<"0", ":", "0", "1">>, <<"3">>, <<"1", ":", "x">>}
    ELSE IF scenario = "names"
    THEN {<<>>, <<"0", ":", "0", "0">>, <<"1", ".", "5">>, <<"2">>, <<"1", ":", "x">>, Done}
    ELSE {<<>>, <<"0", ":", "0", "1">>, <<"x">>}

FrameLines ==
    IF scenario = "names"
    THEN {<<" ">>, <<"x", "1">>, <<"0">>, <<" ", "4", "0">>, <<SuperscriptTwo>>, ChangeChar}
    ELSE {<<>>, <<"4", "0">>}

Table(c, m, n) == <<[k |-> c, v |-> <<[k |-> m, v |-> n]>>]>>

NoOutput == [dirs |-> {}, files |-> {}]

\* an OUTPUT_DIR that earlier runs wrote to: clips 001 and 003 of Ry / Lk
\* and a file that is no clip
OldOutput ==
    LET dir == <<<<"R", "y">>, <<"L", "k">>>>
    IN  [dirs  |-> {dir},
         files |-> {[dir |-> dir, name |-> <<"R","y","_","L","k","_","0","0","1",".","m","p","4">>],
                    [dir |-> dir, name |-> <<"R","y","_","L","k","_","0","0","3",".","m","p","4">>],
                    [dir |-> dir, name |-> <<"R","y","_","L","k","_","9",".","t","x","t">>]}]

\* frame_data.json before the first run
InitialStores ==
    IF scenario = "names"
    THEN {NoFile,
          [exists |-> TRUE, json |-> "invalid", val |-> <<>>],
          [exists |-> TRUE, json |-> "array", val |-> <<>>],
          [exists |-> TRUE, json |-> "object", val |-> Table(<<"K">>, <<"L", "k">>, 40)]}
    ELSE {NoFile}

\* OUTPUT_DIR before the first run
InitialOutputs == IF scenario = "files" THEN {NoOutput, OldOutput} ELSE {NoOutput}

---------------------------------------------------------------------------
(* The interactive flows *)

NoPending == [char_key |-> <<>>, move_key |-> <<>>, center_ts |-> 0]

NoClip == [center |-> 0, start |-> 0, end |-> 0]

\* what a step did: the prompt that took the input, the branch the code took,
\* the value ensure_move_frames returned in it (-1: it did not return) and
\* the clip it asked the video library for
Event(at, op, ret, clip) == [at |-> at, op |-> op, ret |-> ret, clip |-> clip]

\* the locals of a flow that has returned
FlowLocalsReset ==
    /\ frame_data' = <<>>
    /\ duration' = 0
    /\ character' = <<>>
    /\ move' = <<>>
    /\ pending' = NoPending

\* main: the menu prompt
MainMenu ==
    /\ pc = "menu"
    /\ \E line \in MenuLines :
         typed' = line /\ (
         LET choice == Strip(line)
         IN  /\ pc' = IF choice = <<"1">> THEN "manual"
                      ELSE IF choice = <<"2">> THEN "extractor"
                      ELSE IF choice = <<"3">> THEN "exited"
                      ELSE "menu"
             /\ ev' = Event("menu", IF choice \in {<<"1">>, <<"2">>} THEN "menu_flow"
                                    ELSE IF choice = <<"3">> THEN "menu_exit"
                                    ELSE "menu_invalid", -1, NoClip))
    /\ UNCHANGED <<store, frame_data, output, duration, character, move, pending,
                   written, returned, scenario, arg, res>>

\* trim_video: [op, out], op being how it ended
trim_video(video_name, start_time, end_time, out, opens, clip_duration, writes) ==
    IF video_name \notin Videos THEN [op |-> "trim_missing", out |-> out]
    ELSE IF ~opens THEN [op |-> "trim_open_failed", out |-> out]
    ELSE IF start_time >= clip_duration THEN [op |-> "trim_beyond", out |-> out]
    ELSE IF end_time <= start_time THEN [op |-> "trim_empty", out |-> out]
    ELSE IF ~writes THEN [op |-> "trim_write_failed", out |-> out]
    ELSE LET parts == SplitExt(video_name)
             name  == parts.root \o <<"_","t","r","i","m","m","e","d">> \o parts.ext
         IN  [op  |-> "trim_saved",
              out |-> [out EXCEPT !.files = @ \cup {[dir |-> <<>>, name |-> name]}]]

\* manual_trim_flow: its three prompts, the parsing and trim_video
ManualTrimFlow ==
    /\ pc = "manual"
    /\ \E video_line \in VideoLines, start_line \in TimeLines, end_line \in TimeLines,
          opens \in LibraryOutcomes, writes \in LibraryOutcomes,
          clip_duration \in Durations :
         typed' = end_line /\ (
         LET start == parse_time(Strip(start_line))
             end   == parse_time(Strip(end_line))
             done  == trim_video(Strip(video_line), start.val, end.val, output,
                                 opens, clip_duration, writes)
         IN  IF start.raised \/ end.raised
             THEN /\ pc' = "menu"
                  /\ ev' = Event("manual", "manual_invalid_time", -1, NoClip)
                  /\ output' = output
             ELSE /\ pc' = IF done.op \in {"trim_open_failed", "trim_write_failed"}
                           THEN "crashed" ELSE "menu"
                  /\ ev' = Event("manual", done.op, -1,
                                 IF done.op \in {"trim_write_failed", "trim_saved"}
                                 THEN [center |-> start.val, start |-> start.val,
                                       end |-> Min(end.val, clip_duration)]
                                 ELSE NoClip)
                  /\ output' = done.out)
    /\ UNCHANGED <<store, frame_data, duration, character, move, pending,
                   written, returned, scenario, arg, res>>

\* move_extractor_flow up to its first Character prompt (lines 181-196)
ExtractorOpen ==
    /\ pc = "extractor"
    /\ \E video_line \in VideoLines, opens \in LibraryOutcomes,
          clip_duration \in Durations :
         typed' = video_line /\ (
         LET video_name == Strip(video_line)
             loaded     == load_frame_data(store)
         IN  IF video_name \notin Videos
             THEN /\ pc' = "menu"
                  /\ ev' = Event("extractor", "video_missing", -1, NoClip)
                  /\ UNCHANGED <<store, frame_data, duration>>
             ELSE IF loaded.raised
             THEN /\ pc' = "crashed"
                  /\ ev' = Event("extractor", "load_raised", -1, NoClip)
                  /\ store' = loaded.store
                  /\ UNCHANGED <<frame_data, duration>>
             ELSE IF ~opens
             THEN /\ pc' = "crashed"
                  /\ ev' = Event("extractor", "video_open_failed", -1, NoClip)
                  /\ store' = loaded.store
                  /\ frame_data' = loaded.data
                  /\ UNCHANGED duration
             ELSE /\ pc' = "character"
                  /\ ev' = Event("extractor", "video_loaded", -1, NoClip)
                  /\ store' = loaded.store
                  /\ frame_data' = loaded.data
                  /\ duration' = clip_duration)
    /\ UNCHANGED <<output, character, move, pending, written, returned, scenario, arg, res>>

\* a Character prompt: lines 197-203 (from = "character") and 214-221
\* (from = "changechar")
CharacterPromptAt(from) ==
    /\ pc = from
    /\ \E line \in CharacterLines :
         typed' = line /\ (
         LET name == Strip(line)
         IN  IF name = <<>>
             THEN /\ ev' = Event(from, "character_required", -1, NoClip)
                  /\ UNCHANGED <<pc, character>>
             ELSE /\ character' = match_character_name(name, frame_data)
                  /\ pc' = "move"
                  /\ ev' = Event(from, "character_selected", -1, NoClip))
    /\ UNCHANGED <<store, frame_data, output, duration, move, pending, written, returned,
                   scenario, arg, res>>

CharacterPrompt == CharacterPromptAt("character")

ChangeCharPrompt == CharacterPromptAt("changechar")

\* the Move prompt: lines 205-227
MovePrompt ==
    /\ pc = "move"
    /\ \E line \in MoveLines :
         typed' = line /\ (
         LET name       == Strip(line)
             move_lower == StrLower(name)
         IN  IF name = <<>>
             THEN /\ ev' = Event("move", "move_empty", -1, NoClip)
                  /\ move' = name
                  /\ UNCHANGED <<pc, frame_data, duration, character, pending>>
             ELSE IF move_lower = Done
             THEN /\ pc' = "menu"
                  /\ ev' = Event("move", "extractor_done", -1, NoClip)
                  /\ FlowLocalsReset
             ELSE IF move_lower = ChangeChar
             THEN /\ pc' = "changechar"
                  /\ ev' = Event("move", "change_character", -1, NoClip)
                  /\ character' = <<>>
                  /\ move' = name
                  /\ UNCHANGED <<frame_data, duration, pending>>
             ELSE /\ pc' = "timestamp"
                  /\ ev' = Event("move", "move_selected", -1, NoClip)
                  /\ move' = match_move_name(character, name, frame_data)
                  /\ UNCHANGED <<frame_data, duration, character, pending>>)
    /\ UNCHANGED <<store, output, written, returned, scenario, arg, res>>

\* save_move_clip: the directory made, the index and file name chosen, and
\* the file written when the write succeeds
save_move_clip(char, mv, out, writes) ==
    LET made     == [out EXCEPT !.dirs = @ \cup {MoveDir(char, mv)}]
        index    == next_output_index(char, mv, made)
        filename == FilePrefix(char, mv) \o Format03d(index) \o DotMp4
        path     == [dir |-> MoveDir(char, mv), name |-> filename]
    IN  [index   |-> index,
         path    |-> path,
         existed |-> path \in out.files,
         out     |-> IF writes THEN [made EXCEPT !.files = @ \cup {path}] ELSE made]

\* the rest of one timestamp's processing once ensure_move_frames has
\* returned `frames` with the table `data` and the file `file`: lines
\* 136-144 and 256-268
AfterFrames(at, char, mv, data, file, frames, center_ts, writes) ==
    LET window == ClipRange(frames, DEFAULT_FPS, DEFAULT_EXTRA_PRE, DEFAULT_EXTRA_POST,
                            center_ts, duration)
        saved  == save_move_clip(char, mv, output, writes)
        clip   == [center |-> center_ts, start |-> window.start, end |-> window.end]
    IN  /\ frame_data' = data
        /\ returned' = returned \cup {[char |-> normalize_key(char),
                                        mv |-> normalize_key(mv), n |-> frames]}
        /\ store' = file
        /\ pending' = NoPending
        /\ IF window.raised
           THEN /\ pc' = "timestamp"
                /\ ev' = Event(at, "empty_window", frames, NoClip)
                /\ UNCHANGED <<output, written>>
           ELSE IF ~writes
           THEN /\ pc' = "crashed"
                /\ ev' = Event(at, "clip_write_failed", frames, clip)
                /\ output' = saved.out
                /\ UNCHANGED written
           ELSE /\ Len(written) < MaxClips
                /\ pc' = "timestamp"
                /\ ev' = Event(at, "clip_written", frames, clip)
                /\ output' = saved.out
                /\ written' = Append(written,
                                     [char |-> char, mv |-> mv, path |-> saved.path,
                                      index |-> saved.index, existed |-> saved.existed])

\* the Timestamp prompt: lines 228-268, up to the next prompt
TimestampPrompt ==
    /\ pc = "timestamp"
    /\ \E line \in TimeLines, writes \in LibraryOutcomes :
         typed' = line /\ (
         LET ts_input == Strip(line)
             parsed   == parse_time_to_seconds(ts_input)
             char     == match_character_name(character, frame_data)
             mv       == match_move_name(char, move, frame_data)
             \* ensure_move_frames, lines 100-106
             char_key == match_character_name(char, frame_data)
             data     == DictSetDefault(frame_data, char_key)
             move_key == match_move_name(char_key, mv, data)
             moves    == DictGet(data, char_key)
         IN  IF ts_input = <<>>
             THEN /\ pc' = "move"
                  /\ ev' = Event("timestamp", "timestamps_done", -1, NoClip)
                  /\ UNCHANGED <<store, frame_data, output, character, move, pending, written, returned>>
             ELSE IF parsed.raised
             THEN /\ ev' = Event("timestamp", "invalid_time", -1, NoClip)
                  /\ UNCHANGED <<pc, store, frame_data, output, character, move, pending,
                                 written, returned>>
             ELSE IF parsed.val >= duration
             THEN /\ ev' = Event("timestamp", "beyond_duration", -1, NoClip)
                  /\ UNCHANGED <<pc, store, frame_data, output, character, move, pending,
                                 written, returned>>
             ELSE /\ character' = char
                  /\ move' = mv
                  /\ IF DictHas(moves, move_key)
                     THEN AfterFrames("timestamp", char, mv, data, store,
                                      DictGet(moves, move_key), parsed.val, writes)
                     ELSE /\ pc' = "frames"
                          /\ ev' = Event("timestamp", "frames_prompt", -1, NoClip)
                          /\ frame_data' = data
                          /\ pending' = [char_key |-> char_key, move_key |-> move_key,
                                         center_ts |-> parsed.val]
                          /\ UNCHANGED <<store, output, written, returned>>)
    /\ UNCHANGED <<duration, scenario, arg, res>>

\* the frame-count prompt of ensure_move_frames: lines 107-118, then the
\* return at line 106 and the rest of the timestamp's processing
FramePrompt ==
    /\ pc = "frames"
    /\ \E line \in FrameLines, writes \in LibraryOutcomes :
         typed' = line /\ (
         LET user_input == Strip(line)
             value      == DecValue(user_input)
             data       == DictSet(frame_data, pending.char_key,
                                   DictSet(DictGet(frame_data, pending.char_key),
                                           pending.move_key, value))
         IN  IF user_input = <<>>
             THEN /\ ev' = Event("frames", "frames_required", -1, NoClip)
                  /\ UNCHANGED <<pc, store, frame_data, output, pending, written, returned>>
             ELSE IF ~IsDigit(user_input)
             THEN /\ ev' = Event("frames", "frames_not_integer", -1, NoClip)
                  /\ UNCHANGED <<pc, store, frame_data, output, pending, written, returned>>
             ELSE IF ~IntAccepts(user_input)
             THEN \* int() raises ValueError, which line 256 catches
                  /\ pc' = "timestamp"
                  /\ ev' = Event("frames", "frames_value_error", -1, NoClip)
                  /\ pending' = NoPending
                  /\ UNCHANGED <<store, frame_data, output, written, returned>>
             ELSE AfterFrames("frames", character, move, data, save_frame_data(data),
                              DictGet(DictGet(data, pending.char_key), pending.move_key),
                              pending.center_ts, writes))
    /\ UNCHANGED <<duration, character, move, scenario, arg, res>>

\* the process is started again: the files stay, the memory does not
Restart ==
    /\ pc \in {"exited", "crashed"}
    /\ pc' = "menu"
    /\ ev' = Event(pc, "restart", -1, NoClip)
    /\ FlowLocalsReset
    /\ typed' = <<>>
    /\ UNCHANGED <<store, output, written, returned, scenario, arg, res>>

---------------------------------------------------------------------------
(* The program *)

NoArg == [fn |-> "none"]

NoRes == [fn |-> "none"]

Scenarios == {"manual", "names", "files"}

Init ==
    /\ pc = "menu"
    /\ scenario \in Scenarios
    /\ store \in InitialStores
    /\ frame_data = <<>>
    /\ output \in InitialOutputs
    /\ duration = 0
    /\ character = <<>>
    /\ move = <<>>
    /\ pending = NoPending
    /\ written = <<>>
    /\ returned = {}
    /\ typed = <<>>
    /\ ev = Event("start", "start", -1, NoClip)
    /\ arg = NoArg
    /\ res = NoRes

Next ==
    \/ MainMenu
    \/ ManualTrimFlow
    \/ ExtractorOpen
    \/ CharacterPrompt
    \/ ChangeCharPrompt
    \/ MovePrompt
    \/ TimestampPrompt
    \/ FramePrompt
    \/ Restart

Spec == Init /\ [][Next]_vars

\* the program started with no frame_data.json: the table starts empty
InitFresh == Init /\ ~store.exists

SpecFresh == InitFresh /\ [][Next]_vars

---------------------------------------------------------------------------
(* The pure functions on their own: an input is drawn, the function is     *)
(* applied to it once.                                                     *)

\* the largest minutes, seconds and hundredths a time string is written from
MaxMinutes == 2

MaxSeconds == 75

Hundredths == {5, 25, 50}

\* n written in decimal, in at least `width` digits
Digits(n, width) == ZeroPad(DecString(n), width)

\* ".5" for 50 hundredths, ".05" for 5, ".25" for 25
FractionText(h) ==
    IF h % 10 = 0 THEN <<".">> \o Digits(h \div 10, 1) ELSE <<".">> \o Digits(h, 2)

\* the time strings the flows accept, each with the time it writes:
\* [str, minutes, seconds, hundredths]
ValidTimes ==
    {[str |-> Digits(sec, w), minutes |-> 0, seconds |-> sec, hundredths |-> 0] :
        sec \in {0, 7, MaxSeconds}, w \in 1..2}
    \cup {[str |-> Digits(sec, 1) \o FractionText(h),
           minutes |-> 0, seconds |-> sec, hundredths |-> h] :
        sec \in {0, 7, MaxSeconds}, h \in Hundredths}
    \cup {[str |-> Digits(min, w) \o <<":">> \o Digits(sec, 2),
           minutes |-> min, seconds |-> sec, hundredths |-> 0] :
        min \in 0..MaxMinutes, sec \in {0, 7, MaxSeconds}, w \in 1..2}
    \cup {[str |-> Digits(min, 1) \o <<":">> \o Digits(sec, 1) \o FractionText(h),
           minutes |-> min, seconds |-> sec, hundredths |-> h] :
        min \in 0..MaxMinutes, sec \in {0, 7, MaxSeconds}, h \in Hundredths}

\* strings that write no time: empty, more than one colon, a part that is
\* not digits
MalformedTimes ==
    {<<>>, <<":">>, <<".">>, <<"x">>, <<"-", "1">>, <<"1", " ", "2">>, <<"1", "e", "2">>,
     <<"1", ".", "2", ".", "3">>, <<"1", ":", "2", ":", "3">>, <<":", "3", "0">>,
     <<"1", ":">>, <<"1", ":", "x">>, <<"x", ":", "1">>, <<"1", ".", "5", ":", "3", "0">>,
     <<"1", ":", "-", "5">>, <<"1", ":", ":", "5">>, <<SuperscriptTwo>>,
     <<"1", ":", SuperscriptTwo>>}

ParseArgs ==
    {[fn |-> "parse", str |-> t.str, valid |-> TRUE, minutes |-> t.minutes,
      seconds |-> t.seconds, hundredths |-> t.hundredths] : t \in ValidTimes}
    \cup {[fn |-> "parse", str |-> str, valid |-> FALSE, minutes |-> 0,
           seconds |-> 0, hundredths |-> 0] : str \in MalformedTimes}

ApplyParse ==
    /\ arg.fn = "parse"
    /\ res.fn = "none"
    /\ res' = [fn |-> "parse", seconds |-> parse_time_to_seconds(arg.str),
               whole |-> parse_time(arg.str)]
    /\ UNCHANGED <<pc, store, frame_data, output, duration, character, move, pending,
                   written, returned, typed, ev, scenario, arg>>

\* the inputs of get_clip_range, times in ticks
WindowArgs ==
    [fn : {"window"},
     frames : {0, 1, 40, 600},
     fps : {30, DEFAULT_FPS, 120},
     extra_pre : {-TicksPerSecond, 0, DEFAULT_EXTRA_PRE},
     extra_post : {-TicksPerSecond, 0, DEFAULT_EXTRA_POST},
     center : {-TicksPerSecond, 0, TicksPerSecond \div 2, 5 * TicksPerSecond,
               10 * TicksPerSecond},
     duration : {-TicksPerSecond, 0, 5 * TicksPerSecond, 10 * TicksPerSecond}]

ApplyClipRange ==
    /\ arg.fn = "window"
    /\ res.fn = "none"
    /\ res' = [fn |-> "window",
               out |-> ClipRange(arg.frames, arg.fps, arg.extra_pre, arg.extra_post,
                                 arg.center, arg.duration)]
    /\ UNCHANGED <<pc, store, frame_data, output, duration, character, move, pending,
                   written, returned, typed, ev, scenario, arg>>

\* names of files that may lie in the move directory of Ry / Lk
IndexFileNames ==
    {<<"R","y","_","L","k","_","0","0","1",".","m","p","4">>,
     <<"R","y","_","L","k","_","0","0","3",".","m","p","4">>,
     <<"r","y","_","l","k","_","1","2",".","M","P","4">>,
     <<"R","y","_","L","k","_","0","2","0",".","a","v","i">>,
     <<"R","y","_","L","k","_","3","0",".","m","p","4","x">>,
     <<"R","y","_","L","k","_",".","m","p","4">>,
     <<"R","y","_","L","k","4","0",".","m","p","4">>,
     <<"X","R","y","_","L","k","_","5","0",".","m","p","4">>}

\* the character and the move, as the flow passes them
IndexNames ==
    {[char |-> <<"R", "y">>, mv |-> <<"L", "k">>],
     [char |-> <<"R", "-", "y">>, mv |-> <<"L", " ", "k">>],
     [char |-> <<"r", "y">>, mv |-> <<"L", "k">>]}

IndexArgs ==
    {[fn |-> "index", char |-> n.char, mv |-> n.mv,
      out |-> [dirs  |-> {<<<<"R", "y">>, <<"L", "k">>>>},
               files |-> {[dir |-> <<<<"R", "y">>, <<"L", "k">>>>, name |-> f] : f \in names}]] :
        n \in IndexNames, names \in SUBSET IndexFileNames}
    \cup {[fn |-> "index", char |-> n.char, mv |-> n.mv, out |-> NoOutput] : n \in IndexNames}

ApplyNextIndex ==
    /\ arg.fn = "index"
    /\ res.fn = "none"
    /\ res' = [fn |-> "index", out |-> next_output_index(arg.char, arg.mv, arg.out)]
    /\ UNCHANGED <<pc, store, frame_data, output, duration, character, move, pending,
                   written, returned, typed, ev, scenario, arg>>

\* the frame counts of the tables a store file may hold
MaxFrames == 2

\* what frame_data.json may hold: nothing, a text that does not parse, a
\* JSON value that is no object, or a table
StoreFiles ==
    {NoFile}
    \cup {[exists |-> TRUE, json |-> j, val |-> <<>>] : j \in {"invalid", "array", "number", "object"}}
    \cup {[exists |-> TRUE, json |-> "object", val |-> Table(c, m, n)] :
            c \in {<<"K">>, <<"R", "y">>}, m \in {<<"L", "k">>, <<"l", " ", "K">>},
            n \in 1..MaxFrames}
    \cup {[exists |-> TRUE, json |-> "object",
           val |-> Table(<<"R", "y">>, <<"L", "k">>, n) \o Table(<<"K">>, <<"L", "k">>, n)] :
            n \in 1..MaxFrames}

LoadArgs == {[fn |-> "load", file |-> f] : f \in StoreFiles}

ApplyLoad ==
    /\ arg.fn = "load"
    /\ res.fn = "none"
    /\ res' = [fn |-> "load", out |-> load_frame_data(arg.file)]
    /\ UNCHANGED <<pc, store, frame_data, output, duration, character, move, pending,
                   written, returned, typed, ev, scenario, arg>>

\* the tables the name lookups are applied to: empty, one character, two
\* characters, and a hand-edited one whose keys differ only by case and space
MatchTables ==
    {<<>>,
     Table(<<"R", "y">>, <<"L", "k">>, 40),
     Table(<<"R", "y">>, <<"L", "k">>, 40) \o Table(<<"K">>, <<"l", " ", "K">>, 2),
     <<[k |-> <<"R", "y">>,
        v |-> <<[k |-> <<"L", "k">>, v |-> 40], [k |-> <<"l", "k">>, v |-> 2]>>],
       [k |-> <<"r", " ", "y">>, v |-> <<>>]>>}

\* the names an operator may type for a character and for a move
MatchCharacterNames ==
    {<<"R", "y">>, <<"r", "Y">>, <<"r", "\t", "y">>, <<"k">>, <<"Z">>, <<"R", "-", "y">>}

MatchMoveNames ==
    {<<"L", "k">>, <<"l", " ", "K">>, <<"L", "K">>, <<"l", "k">>, <<"x">>}

MatchArgs ==
    [fn : {"match"}, data : MatchTables, name : MatchCharacterNames,
     char : {<<"R", "y">>, <<"r", "y">>, <<"K">>}, mv : MatchMoveNames]

\* match_character_name(name, data) and match_move_name(char, mv, data),
\* with the table as it is after the two calls
ApplyMatch ==
    /\ arg.fn = "match"
    /\ res.fn = "none"
    /\ res' = [fn |-> "match",
               char |-> match_character_name(arg.name, arg.data),
               mv |-> match_move_name(arg.char, arg.mv, arg.data),
               data |-> arg.data]
    /\ UNCHANGED <<pc, store, frame_data, output, duration, character, move, pending,
                   written, returned, typed, ev, scenario, arg>>

InitFn ==
    /\ pc = "menu"
    /\ scenario = "manual"
    /\ store = NoFile
    /\ frame_data = <<>>
    /\ output = NoOutput
    /\ duration = 0
    /\ character = <<>>
    /\ move = <<>>
    /\ pending = NoPending
    /\ written = <<>>
    /\ returned = {}
    /\ typed = <<>>
    /\ ev = Event("start", "start", -1, NoClip)
    /\ arg \in ParseArgs \cup WindowArgs \cup IndexArgs \cup LoadArgs \cup MatchArgs
    /\ res = NoRes

NextFn ==
    \/ ApplyParse
    \/ ApplyClipRange
    \/ ApplyNextIndex
    \/ ApplyLoad
    \/ ApplyMatch

SpecFn == InitFn /\ [][NextFn]_vars

---------------------------------------------------------------------------
(* Properties of the pure functions, under SpecFn *)

\* C2: get_clip_range either fails with the empty-window error or returns
\* (start, end) with 0 <= start < end <= video duration, whatever the frame
\* count, the (positive) frame rate, the extras, the center and the duration.
ClipWindowValid ==
    res.fn = "window" =>
        \/ res.out.raised
        \/ /\ 0 <= res.out.start
           /\ res.out.start < res.out.end
           /\ res.out.end <= arg.duration

\* a window returned after being clamped at both ends
ClipWindowClampedBothEnds ==
    /\ res.fn = "window"
    /\ ~res.out.raised
    /\ arg.center > 0
    /\ arg.extra_pre = DEFAULT_EXTRA_PRE /\ arg.extra_post = DEFAULT_EXTRA_POST
    /\ arg.center - (arg.frames * TicksPerSecond) \div (2 * arg.fps) < 0
    /\ arg.center + (arg.frames * TicksPerSecond) \div (2 * arg.fps) > arg.duration
    /\ res.out.start = 0
    /\ res.out.end = arg.duration

\* the largest index a clip name is written with
MaxIndex == 60

\* name is <prefix><digits>.mp4 for some index, letter case aside
IsClipName(prefix, name) ==
    \E n \in 0..MaxIndex, w \in 1..3 :
        StrLower(name) = StrLower(prefix \o Digits(n, w) \o DotMp4)

ClipNumber(prefix, name) ==
    CHOOSE n \in 0..MaxIndex :
        \E w \in 1..3 : StrLower(name) = StrLower(prefix \o Digits(n, w) \o DotMp4)

SetMax(S) == CHOOSE n \in S : \A m \in S : m <= n

\* C3: next_output_index returns 1 when the move directory does not exist
\* or holds no file named <sanitized character>_<sanitized move>_<digits>.mp4,
\* and otherwise the largest such number plus one: gaps are not filled and
\* other files do not count.
NextIndexIsMaxPlusOne ==
    res.fn = "index" =>
        LET dir    == <<sanitize_label(arg.char), sanitize_label(arg.mv)>>
            prefix == sanitize_label(arg.char) \o <<"_">> \o sanitize_label(arg.mv) \o <<"_">>
            clips  == {f \in arg.out.files : f.dir = dir /\ IsClipName(prefix, f.name)}
        IN  res.out = IF dir \notin arg.out.dirs \/ clips = {} THEN 1
                      ELSE SetMax({ClipNumber(prefix, f.name) : f \in clips}) + 1

\* clips 001 and 003 and files that are no clips: the next index is 4
NextIndexSkipsGap ==
    /\ res.fn = "index"
    /\ Cardinality(arg.out.files) = 4
    /\ \E f \in arg.out.files : ~IsClipName(FilePrefix(arg.char, arg.mv), f.name)
    /\ res.out = 4

\* C6: load_frame_data never raises; on a file that is absent, does not
\* parse or holds no object it returns the empty table and leaves a valid
\* empty table in the file; on a file holding a table it returns the table
\* and leaves the file as it was.
LoadReturnsTableOrResets ==
    res.fn = "load" =>
        /\ ~res.out.raised
        /\ IF arg.file.exists /\ arg.file.json = "object"
           THEN res.out.data = arg.file.val /\ res.out.store = arg.file
           ELSE /\ res.out.data = <<>>
                /\ res.out.store = [exists |-> TRUE, json |-> "object", val |-> <<>>]

\* a file holding a JSON array has been loaded and reset
LoadResetNonMapping ==
    /\ res.fn = "load"
    /\ arg.file.exists
    /\ arg.file.json = "array"
    /\ res.out.store.json = "object"

\* the time a valid time string writes, in ticks
WrittenTicks(a) ==
    (a.minutes * 60 + a.seconds) * TicksPerSecond + (a.hundredths * TicksPerSecond) \div 100

\* C10 as stated: both parsers return the exact time of every valid string
\* and fail on every malformed one.
BothParsersExact ==
    res.fn = "parse" =>
        IF arg.valid
        THEN /\ ~res.seconds.raised /\ res.seconds.val = WrittenTicks(arg)
             /\ ~res.whole.raised /\ res.whole.val = WrittenTicks(arg)
        ELSE res.seconds.raised /\ res.whole.raised

\* C10, amended: parse_time_to_seconds returns the exact time of every valid
\* string, parse_time returns its whole seconds (the fraction dropped), and
\* both fail on every malformed string.
ParsersExactOrWholeSeconds ==
    res.fn = "parse" =>
        IF arg.valid
        THEN /\ ~res.seconds.raised /\ res.seconds.val = WrittenTicks(arg)
             /\ ~res.whole.raised
             /\ res.whole.val = (arg.minutes * 60 + arg.seconds) * TicksPerSecond
        ELSE res.seconds.raised /\ res.whole.raised

\* an mm:ss string with a fraction has been parsed by both parsers
ParsedFractionalMinutes ==
    /\ res.fn = "parse"
    /\ arg.valid /\ arg.minutes > 0 /\ arg.hundredths > 0
    /\ res.seconds.val = WrittenTicks(arg)
    /\ res.whole.val < res.seconds.val

---------------------------------------------------------------------------
(* Properties of the flows, under Spec and SpecFresh *)

\* the frame counts of a table
FrameCounts(d) == UNION {{d[i].v[j].v : j \in DOMAIN d[i].v} : i \in DOMAIN d}

\* C1: started with an empty table, every frame count in the table, in the
\* persisted file or returned by ensure_move_frames is at least 1.
FrameCountsPositive ==
    /\ \A n \in FrameCounts(frame_data) : n >= 1
    /\ \A n \in FrameCounts(store.val) : n >= 1
    /\ ev.ret = -1 \/ ev.ret >= 1

\* the writes before the i-th one into the same directory
EarlierWrites(i) == {j \in 1..(i - 1) : written[j].path.dir = written[i].path.dir}

\* C4: every clip is written under a name no file of its directory had, the
\* indices used in one directory increase strictly from write to write, and
\* they are 1, 2, ... in a directory that held no clip at the start.
ClipNamesFreshAndIncreasing ==
    \A i \in DOMAIN written :
        /\ ~written[i].existed
        /\ \A j \in EarlierWrites(i) : written[j].index < written[i].index
        /\ OldOutput.files \cap output.files = {} =>
               written[i].index = Cardinality(EarlierWrites(i)) + 1

\* two moves with the same sanitized label have written clips 001 and 002
\* of one directory
TwoMovesShareSequence ==
    /\ Len(written) = 2
    /\ written[1].mv /= written[2].mv
    /\ written[1].path.dir = written[2].path.dir
    /\ written[1].index = 1
    /\ written[2].index = 2

NoTwoKeysAlike(d) ==
    \A i, j \in DOMAIN d : i /= j => normalize_key(d[i].k) /= normalize_key(d[j].k)

KeysUniqueIn(d) == NoTwoKeysAlike(d) /\ \A i \in DOMAIN d : NoTwoKeysAlike(d[i].v)

\* C5: no two character keys, and no two move keys of one character,
\* normalize to the same key, in the table and in the persisted file; and
\* the selected character and move are the stored keys of their entities,
\* so that an insertion reuses the first-seen casing.
KeysStayUnique ==
    /\ KeysUniqueIn(frame_data)
    /\ KeysUniqueIn(store.val)
    /\ pc \in {"move", "timestamp", "frames"} =>
           \A i \in DOMAIN frame_data :
               normalize_key(frame_data[i].k) = normalize_key(character)
                   => frame_data[i].k = character
    /\ pc \in {"timestamp", "frames"} /\ DictHas(frame_data, character) =>
           LET moves == DictGet(frame_data, character)
           IN  \A j \in DOMAIN moves :
                   normalize_key(moves[j].k) = normalize_key(move) => moves[j].k = move

\* the stored casings K and Lk were reused for other spellings, beside a
\* character and a move first seen in this run
StoredCasingReused ==
    /\ scenario = "names"
    /\ ev.op = "clip_written"
    /\ character = <<"K">>
    /\ DictHas(frame_data, <<"K">>)
    /\ Len(DictGet(frame_data, <<"K">>)) = 1
    /\ Len(frame_data) = 2
    /\ \E i \in DOMAIN frame_data : Len(frame_data[i].v) = 1 /\ frame_data[i].k /= <<"K">>

\* a table as a mapping, the order of the keys aside
AsMapping(d) == {<<d[i].k, {<<d[i].v[j].k, d[i].v[j].v>> : j \in DOMAIN d[i].v}>> : i \in DOMAIN d}

\* C7: whenever ensure_move_frames returns, the persisted table equals the
\* table in memory.
PersistedEqualsMemoryOnReturn ==
    ev.ret >= 0 =>
        /\ store.exists
        /\ store.json = "object"
        /\ AsMapping(store.val) = AsMapping(frame_data)

InCollectTimestamps(p) == p \in {"timestamp", "frames"}

\* C8: in CollectTimestamps only the empty timestamp leaves the state; every
\* other input leaves the orchestrator there with the same character and
\* move, and an invalid or too late timestamp changes no file and no table.
OnlyEmptyInputLeavesTimestamps ==
    [][(InCollectTimestamps(pc) /\ ev'.op /= "timestamps_done") =>
           /\ InCollectTimestamps(pc')
           /\ character' = character
           /\ move' = move
           /\ ev'.op \in {"invalid_time", "beyond_duration"} =>
                  UNCHANGED <<output, written, frame_data, store>>]_vars

\* C9: no failure of the video library ends the process.
NoFailureEndsTheProcess == pc /= "crashed"

---------------------------------------------------------------------------
(* Name resolution, under SpecFn *)

\* `key` is what a lookup of `query` among `keys` is to return
ResolvedAmong(key, query, keys) ==
    IF \E k \in keys : normalize_key(k) = normalize_key(query)
    THEN key \in keys /\ normalize_key(key) = normalize_key(query)
    ELSE key = query

\* C11: match_character_name and match_move_name return a stored key of
\* their level whenever one normalizes equal to the queried name, whatever
\* the case and spacing of the query, return the query itself when none
\* does, and leave the table as it was.
LookupReturnsStoredKeyOrQuery ==
    res.fn = "match" =>
        /\ ResolvedAmong(res.char, arg.name, DictKeys(arg.data))
        /\ ResolvedAmong(res.mv, arg.mv, DictKeys(DictGetOr(arg.data, arg.char, <<>>)))
        /\ res.data = arg.data

\* both lookups answered with a stored key written otherwise than the query
LookupFoundOtherSpelling ==
    /\ res.fn = "match"
    /\ res.char /= arg.name
    /\ res.char \in DictKeys(arg.data)
    /\ res.mv /= arg.mv
    /\ res.mv \in DictKeys(DictGetOr(arg.data, arg.char, <<>>))

---------------------------------------------------------------------------
(* The frame-count prompt, under Spec *)

\* the branches FramePrompt takes on an entry that is no decimal integer:
\* empty after strip(), a character that is no digit, and digits that are
\* not decimal (the superscript two)
InvalidEntryBranches == {"frames_required", "frames_not_integer", "frames_value_error"}

\* the step is the frame-count prompt reading an invalid entry
InvalidFrameEntry == pc = "frames" /\ ev'.op \in InvalidEntryBranches

\* C12: an invalid entry at the frame-count prompt leaves the move without a
\* count, leaves the store as it was and is followed by the same prompt;
\* ensure_move_frames returns from the prompt only on an accepted entry, and
\* on every accepted entry it returns.
InvalidFrameEntryPromptsAgain ==
    [][/\ InvalidFrameEntry =>
            /\ pc' = "frames"
            /\ store' = store
            /\ ~DictHas(DictGet(frame_data', pending.char_key), pending.move_key)
       /\ (pc = "frames" /\ ev'.ret /= -1) => ev'.op \notin InvalidEntryBranches
       /\ (pc = "frames" /\ ev'.op \notin InvalidEntryBranches) => ev'.ret /= -1]_vars

---------------------------------------------------------------------------
(* Lookups after a count exists, under Spec *)

\* the step calls ensure_move_frames: a timestamp was read, parsed and found
\* inside the video
EnsureCalled ==
    /\ pc = "timestamp"
    /\ ev'.op \in {"frames_prompt", "empty_window", "clip_written", "clip_write_failed"}

\* C13: once ensure_move_frames has returned n for a character and a move,
\* every later call whose names normalize to the same keys returns n, asks
\* the operator nothing, writes no store file and leaves the table as it was.
LookupAfterReturnIsPromptFree ==
    [][EnsureCalled =>
         \A r \in returned :
            (r.char = normalize_key(character') /\ r.mv = normalize_key(move')) =>
                /\ ev'.op /= "frames_prompt"
                /\ ev'.ret = r.n
                /\ store' = store
                /\ frame_data' = frame_data]_vars

\* a count has been returned a second time for the same character and
\* move, this time with no prompt: a clip was written for them before, and
\* the last step came back from ensure_move_frames at the timestamp prompt
ReturnedAgainWithoutPrompt ==
    /\ ev.at = "timestamp"
    /\ ev.op = "clip_written"
    /\ ev.ret >= 0
    /\ Len(written) = 2
    /\ normalize_key(written[1].char) = normalize_key(character)
    /\ normalize_key(written[1].mv) = normalize_key(move)
    /\ [char |-> normalize_key(character), mv |-> normalize_key(move), n |-> ev.ret]
           \in returned

---------------------------------------------------------------------------
(* The states of the move extractor, under Spec *)

\* a and b are one letter in either case, or one character
SameLetter(a, b) ==
    \/ a = b
    \/ \E i \in DOMAIN UpperLetters : {a, b} = {UpperLetters[i], LowerLetters[i]}

\* the entry, without the spaces around it, is `command` in some letter case
Typed(entry, command) ==
    \E i \in 1..(Len(entry) + 1), j \in 0..Len(entry) :
        /\ \A k \in 1..(i - 1) : entry[k] \in {" ", "\t"}
        /\ \A k \in (j + 1)..Len(entry) : entry[k] \in {" ", "\t"}
        /\ j - i + 1 = Len(command)
        /\ \A k \in 1..Len(command) : SameLetter(entry[i + k - 1], command[k])

Blank(entry) == \A k \in DOMAIN entry : entry[k] \in {" ", "\t"}

SelectCharacter(p) == p \in {"character", "changechar"}

\* C14: SelectCharacter takes only a non-empty name and goes to SelectMove;
\* in SelectMove an empty entry stays, 'done' in any letter case ends the
\* session and writes no clip, 'changechar' in any letter case goes to
\* SelectCharacter (which leads back to SelectMove), and any other entry
\* goes to CollectTimestamps for the move it names; in CollectTimestamps the
\* two commands are entries like any other and leave the state as it is.
OrchestratorTransitions ==
    [][/\ SelectCharacter(pc) =>
            IF Blank(typed')
            THEN pc' = pc
            ELSE pc' = "move" /\ normalize_key(character') = normalize_key(typed')
       /\ pc = "move" =>
            IF Blank(typed') THEN pc' = "move" /\ character' = character
            ELSE IF Typed(typed', Done)
            THEN /\ pc' = "menu"
                 /\ written' = written
                 /\ output' = output
            ELSE IF Typed(typed', ChangeChar) THEN pc' = "changechar"
            ELSE /\ pc' = "timestamp"
                 /\ character' = character
                 /\ normalize_key(move') = normalize_key(typed')
       /\ (InCollectTimestamps(pc) /\ (Typed(typed', Done) \/ Typed(typed', ChangeChar))) =>
            /\ pc' = pc
            /\ character' = character
            /\ move' = move
            /\ written' = written]_vars

\* a session in which a clip was written and that 'Done', typed with a
\* capital, ended
SessionEndedByDoneInCapitals ==
    /\ ev.op = "extractor_done"
    /\ pc = "menu"
    /\ typed = <<"D", "o", "n", "e">>
    /\ Len(written) >= 1

---------------------------------------------------------------------------
(* The clips of the move extractor, under Spec *)

\* the last step asked the video library for a clip of the open video
ClipHandedOver == ev.op \in {"clip_written", "clip_write_failed"}

\* C15: in the move extractor the timestamp is at least 0 and before the end
\* of the video when the window is computed, so with a frame count that is
\* not negative the window is never empty, and every clip the video library
\* is asked for has 0 <= start <= center < end <= duration.
ExtractorClipsInsideVideo ==
    /\ ev.op = "empty_window" => ev.ret < 0
    /\ (ClipHandedOver /\ ev.ret >= 0) =>
          /\ 0 <= ev.clip.start
          /\ ev.clip.start <= ev.clip.center
          /\ ev.clip.center < ev.clip.end
          /\ ev.clip.end <= duration

\* a clip around the very start of the video: its start is clamped to 0,
\* where its center lies
ClipAtStartOfVideo ==
    /\ ClipHandedOver
    /\ ev.ret >= 0
    /\ ev.clip.center = 0
    /\ ev.clip.start = 0
    /\ ev.clip.end > 0

====
